---- MODULE Spec2Model ----
(***************************************************************************)
(* State-machine model of the three scripts of ascii-side-of-the-moon:     *)
(*   scripts/clusters.py   the cluster-selection pipeline   (Spec)         *)
(*   scripts/png2ascii.py  the assembly/rendering loop      (SpecAscii)    *)
(*   scripts/printer.py    the display script               (SpecPrinter)  *)
(*                                                                         *)
(* Numbers.  A feature value is an integer counting tenths of the output   *)
(* precision of its column: one unit is 10^-(decimals+1), so that          *)
(* round(decimals) is rounding to a multiple of Radix units.  The          *)
(* arithmetic the script itself performs (lines 21-23 and 36-38) is IEEE   *)
(* round-to-nearest-even arithmetic; it is modelled by Fl, the same        *)
(* rounding with a significand of Precision bits instead of 53 and no      *)
(* digits below one unit.  The arithmetic inside MinMaxScaler and          *)
(* MiniBatchKMeans is modelled exactly, on rationals with an explicit      *)
(* denominator.                                                            *)
(***************************************************************************)
EXTENDS Integers, Sequences, FiniteSets, TLC

VARIABLES
    pc,                      \* position in the module body of clusters.py
    csv,                     \* data/moon_history.csv
    df,                      \* df
    dist_range,              \* dist_range
    elat_range,              \* elat_range
    elon_range,              \* elon_range
    grid_points,             \* grid_points
    all_points,              \* all_points
    scaler,                  \* scaler (data_min_, data_max_ once fit)
    features_scaled,         \* features_scaled
    cluster_centers_scaled,  \* kmeans.cluster_centers_
    cluster_centers,         \* cluster_centers
    centers_df,              \* centers_df
    out_file,                \* data/cluster_centers.csv
    error,                   \* the exception that ended the run, or "none"
    apc,                     \* png2ascii.py: position
    clusters_df,             \* png2ascii.py: clusters_df
    arow,                    \* png2ascii.py: the row iterrows() is at
    tool,                    \* png2ascii.py: what running chafa does, per row
    result,                  \* png2ascii.py: result
    ascii_json,              \* png2ascii.py: src/render/ascii.json
    aerror,                  \* png2ascii.py: the uncaught exception, or "none"
    alog,                    \* png2ascii.py: the indexes logged as failed
    ppc,                     \* printer.py: position
    artifact,                \* printer.py: src/render/ascii.json as found
    moons,                   \* printer.py: moons
    i,                       \* printer.py: the loop index of main
    stdout,                  \* printer.py: what was printed
    perror                   \* printer.py: the uncaught exception, or "none"

cvars == <<pc, csv, df, dist_range, elat_range, elon_range, grid_points,
           all_points, scaler, features_scaled, cluster_centers_scaled,
           cluster_centers, centers_df, out_file, error>>
avars == <<apc, clusters_df, arow, tool, result, ascii_json, aerror, alog>>
pvars == <<ppc, artifact, moons, i, stdout, perror>>
vars == <<cvars, avars, pvars>>

(***************************************************************************)
(* Bounds of the model and constants of the program.                       *)
(***************************************************************************)
\* NCLUSTERS (31 in the script), scaled down
NCLUSTERS == 2
\* points per dimension of the mesh: np.linspace(0, 1, 10) in the script
GridSteps == 3
\* most rows of the input table
MaxRows == 2
\* a centre's scaled coordinate is j / CenterDen, j in 0..CenterDen
CenterDen == 1
\* bits of the significand of the script's floating-point arithmetic
Precision == 6
\* .round(1) of distance_km
DistDecimals == 1
\* .round(3) of libration_elat and libration_elon
LibrationDecimals == 3
\* round() and the text of a float are decimal
Radix == 10

Columns == <<"distance_km", "libration_elat", "libration_elon">>
ColumnSet == {Columns[c] : c \in 1..3}

Decimals(col) == IF col = "distance_km" THEN DistDecimals ELSE LibrationDecimals

NaN == -(2^30)

(***************************************************************************)
(* Arithmetic.                                                             *)
(***************************************************************************)
Abs(x) == IF x < 0 THEN -x ELSE x

RECURSIVE Pow(_, _)
Pow(b, e) == IF e = 0 THEN 1 ELSE b * Pow(b, e - 1)

\* the integer nearest to num/den (den > 0), a tie going to the even one
RoundHalfEven(num, den) ==
    LET q == num \div den
        r == num - q * den
    IN  IF 2 * r < den THEN q
        ELSE IF 2 * r > den THEN q + 1
        ELSE IF q % 2 = 0 THEN q ELSE q + 1

\* the exponent of the unit in the last place of num/den: the least e >= 0
\* with |num/den| < 2^(Precision + e)
RECURSIVE UlpExp(_, _, _)
UlpExp(num, den, e) ==
    IF Abs(num) < den * Pow(2, Precision + e) THEN e ELSE UlpExp(num, den, e + 1)

\* num/den rounded to the nearest representable number
Fl(num, den) ==
    LET e == UlpExp(num, den, 0)
    IN  RoundHalfEven(num, den * Pow(2, e)) * Pow(2, e)

FlSub(a, b) == IF a = NaN \/ b = NaN THEN NaN ELSE Fl(a - b, 1)
FlAdd(a, b) == IF a = NaN \/ b = NaN THEN NaN ELSE Fl(a + b, 1)
\* (n/d) * b for the fraction n/d of np.linspace(0, 1, d + 1)
FlMulFrac(n, d, b) == IF b = NaN THEN NaN ELSE Fl(n * b, d)

(***************************************************************************)
(* Text.  A string is a sequence of characters.                            *)
(***************************************************************************)
Digit == <<"0", "1", "2", "3", "4", "5", "6", "7", "8", "9">>

\* str(n) for n >= 0
RECURSIVE DecStr(_)
DecStr(n) ==
    IF n < Radix THEN <<Digit[n + 1]>>
    ELSE DecStr(n \div Radix) \o <<Digit[(n % Radix) + 1]>>

RECURSIVE ZeroPad(_, _)
ZeroPad(s, width) == IF Len(s) >= width THEN s ELSE ZeroPad(<<"0">> \o s, width)

\* f"{n:02d}"
Fmt02(n) == ZeroPad(DecStr(n), 2)

RECURSIVE StripZeros(_)
StripZeros(s) ==
    IF Len(s) > 1 /\ s[Len(s)] = "0" THEN StripZeros(SubSeq(s, 1, Len(s) - 1))
    ELSE s

\* the text to_csv writes for the float n * 10^-decimals: the shortest
\* decimal that reads back as the same float, with at least one
\* fractional digit
FloatRepr(n, decimals) ==
    LET m    == Abs(n)
        unit == Pow(Radix, decimals)
        sign == IF n < 0 THEN <<"-">> ELSE <<>>
        frac == StripZeros(ZeroPad(DecStr(m % unit), decimals))
    IN  sign \o DecStr(m \div unit) \o <<".">> \o frac

(***************************************************************************)
(* scripts/clusters.py                                                     *)
(***************************************************************************)
\* the observations an input table is made of, in model units (0.01 km,
\* 0.0001 degree), each value a representable float.  The first two have the output
\* precision (multiples of Radix); the third does not, and shares its
\* libration_elon with the first.
Observations ==
    << [distance_km |-> 30, libration_elat |-> -70, libration_elon |-> 0],
       [distance_km |-> 50, libration_elat |-> 80, libration_elon |-> 20],
       [distance_km |-> 34, libration_elat |-> -41, libration_elon |-> 0] >>

\* the input tables: up to MaxRows observations, in the order of the list
Tables ==
    { [ n \in DOMAIN s |-> Observations[s[n]] ] :
        s \in { t \in UNION { [1..n -> 1..Len(Observations)] : n \in 0..MaxRows } :
                  \A n \in 1..(Len(t) - 1) : t[n] <= t[n + 1] } }

\* data/moon_history.csv as the run finds it: absent, or a table with all of
\* the required columns or all but one
Inputs ==
    { [exists |-> FALSE, columns |-> {}, rows |-> <<>>] }
    \cup { [exists |-> TRUE, columns |-> ColumnSet, rows |-> t] : t \in Tables }
    \cup { [exists |-> TRUE, columns |-> ColumnSet \ {c}, rows |-> <<>>] :
             c \in ColumnSet }

SetMin(S) == CHOOSE x \in S : \A y \in S : x <= y
SetMax(S) == CHOOSE x \in S : \A y \in S : x >= y

\* df[col].min() and df[col].max(): NaN for a table with no rows
ColMin(frame, col) ==
    IF frame = <<>> THEN NaN ELSE SetMin({ frame[n][col] : n \in 1..Len(frame) })
ColMax(frame, col) ==
    IF frame = <<>> THEN NaN ELSE SetMax({ frame[n][col] : n \in 1..Len(frame) })

\* df[col].max() - df[col].min()
ColRange(frame, col) == FlSub(ColMax(frame, col), ColMin(frame, col))

\* df[col].min() + d * col_range, d = n / (GridSteps - 1)
GridValue(frame, col, n, range) ==
    FlAdd(ColMin(frame, col), FlMulFrac(n, GridSteps - 1, range))

\* the mesh of lines 32-39, in the order of the three nested loops
Mesh(frame, dr, er, nr) ==
    [ n \in 1..(GridSteps * GridSteps * GridSteps) |->
        LET d  == (n - 1) \div (GridSteps * GridSteps)
            e1 == ((n - 1) \div GridSteps) % GridSteps
            e2 == (n - 1) % GridSteps
        IN  << GridValue(frame, "distance_km", d, dr),
               GridValue(frame, "libration_elat", e1, er),
               GridValue(frame, "libration_elon", e2, nr) >> ]

\* df[["distance_km", "libration_elat", "libration_elon"]].values
FeatureValues(frame) ==
    [ n \in 1..Len(frame) |-> << frame[n].distance_km, frame[n].libration_elat,
                                 frame[n].libration_elon >> ]

\* np.vstack([features, grid_points])
VStack(features, grid) == features \o grid

\* MinMaxScaler.fit: the per-feature minimum and maximum, NaN ignored
FiniteColumn(points, f) == { points[n][f] : n \in 1..Len(points) } \ {NaN}
DataMin(points, f) ==
    IF FiniteColumn(points, f) = {} THEN NaN ELSE SetMin(FiniteColumn(points, f))
DataMax(points, f) ==
    IF FiniteColumn(points, f) = {} THEN NaN ELSE SetMax(FiniteColumn(points, f))
ScalerFit(points) ==
    [ fitted   |-> TRUE,
      data_min |-> [ f \in 1..3 |-> DataMin(points, f) ],
      data_max |-> [ f \in 1..3 |-> DataMax(points, f) ] ]

\* the divisor of the transform: data_range, a zero range replaced by 1
HandleZeros(sc, f) ==
    IF sc.data_max[f] = sc.data_min[f] THEN 1 ELSE sc.data_max[f] - sc.data_min[f]

\* MinMaxScaler.transform of one value: (x - data_min) / data_range, as
\* <<numerator, denominator>>
ScalerTransform(sc, f, x) ==
    IF x = NaN \/ sc.data_min[f] = NaN THEN << NaN, 1 >>
    ELSE << x - sc.data_min[f], HandleZeros(sc, f) >>

\* an inverse transform that forgets to add data_min back
ScalerInverseNoOffset(sc, f, c) == << c[1] * HandleZeros(sc, f), c[2] >>

\* MinMaxScaler.inverse_transform of one scaled value num/den:
\* data_min + (num/den) * data_range, as <<numerator, denominator>>
ScalerInverse(sc, f, c) ==
    << sc.data_min[f] * c[2] + c[1] * HandleZeros(sc, f), c[2] >>

\* the lattice points j/CenterDen of feature f between the least and the
\* greatest scaled value of the sample
CenterCoords(fs, f) ==
    LET nums == { fs[n][f][1] : n \in 1..Len(fs) }
        den  == fs[1][f][2]
    IN  { << j, CenterDen >> : j \in { k \in 0..CenterDen :
              /\ SetMin(nums) * CenterDen <= k * den
              /\ k * den <= SetMax(nums) * CenterDen } }

\* what kmeans.cluster_centers_ may be after the fit: n_clusters points, each
\* coordinate within the range of the sample
CenterArrays(fs) ==
    [ 1..NCLUSTERS -> CenterCoords(fs, 1) \X CenterCoords(fs, 2) \X CenterCoords(fs, 3) ]

HasNaN(fs) == \E n \in 1..Len(fs) : \E f \in 1..3 : fs[n][f][1] = NaN

\* pd.DataFrame(cluster_centers, columns=[...]): the rows get the labels 0, 1, ...
DataFrame(centers) ==
    [ n \in 1..Len(centers) |->
        [ label |-> n - 1, distance_km |-> centers[n][1],
          libration_elat |-> centers[n][2], libration_elon |-> centers[n][3] ] ]

\* a rounding to one digit too many
RoundValueOneDigitMore(v, col) == RoundHalfEven(v[1], v[2])

\* Series.round(decimals) of one value num/den
RoundValue(v, col) == RoundHalfEven(v[1], v[2] * Radix) * Radix

RoundFrame(frame) ==
    [ n \in 1..Len(frame) |->
        [ label |-> frame[n].label,
          distance_km |-> RoundValue(frame[n].distance_km, "distance_km"),
          libration_elat |-> RoundValue(frame[n].libration_elat, "libration_elat"),
          libration_elon |-> RoundValue(frame[n].libration_elon, "libration_elon") ] ]

\* the orders sort_values("distance_km") may leave the rows in: every
\* permutation with the distances ascending (the default sort is not stable)
SortedOrders(frame) ==
    { p \in [1..Len(frame) -> 1..Len(frame)] :
        /\ \A a, b \in 1..Len(frame) : a # b => p[a] # p[b]
        /\ \A a \in 1..(Len(frame) - 1) :
              frame[p[a]].distance_km <= frame[p[a + 1]].distance_km }

\* a sort that keeps one row per distance
ReorderDropTies(frame, p) ==
    LET sorted == [ n \in 1..Len(frame) |-> frame[p[n]] ]
        keep(n) == n = 1 \/ sorted[n].distance_km # sorted[n - 1].distance_km
    IN  IF \A n \in 1..Len(frame) : keep(n) THEN sorted ELSE << sorted[1] >>

Reorder(frame, p) == [ n \in 1..Len(frame) |-> frame[p[n]] ]

\* [f"{i:02d}" for i in range(1, n_clusters + 1)]
IndexColumn == [ n \in 1..NCLUSTERS |-> Fmt02(n) ]

\* an insert that aligns the values on the row labels, as a Series would be
InsertIndexByLabel(frame, values) ==
    [ n \in 1..Len(frame) |->
        [ index |-> values[frame[n].label + 1], label |-> frame[n].label,
          distance_km |-> frame[n].distance_km,
          libration_elat |-> frame[n].libration_elat,
          libration_elon |-> frame[n].libration_elon ] ]

\* centers_df.insert(0, "index", values): the values go to the rows by position
InsertIndex(frame, values) ==
    [ n \in 1..Len(frame) |->
        [ index |-> values[n], label |-> frame[n].label,
          distance_km |-> frame[n].distance_km,
          libration_elat |-> frame[n].libration_elat,
          libration_elon |-> frame[n].libration_elon ] ]

\* the text of one float cell of the output table
Cell(v, col) == FloatRepr(v, Decimals(col) + 1)

\* centers_df.to_csv(path, index=False): a header and one line per row,
\* without the row labels
CsvText(frame) ==
    [ exists |-> TRUE,
      header |-> << "index", "distance_km", "libration_elat", "libration_elon" >>,
      rows   |-> [ n \in 1..Len(frame) |->
                     << frame[n].index,
                        Cell(frame[n].distance_km, "distance_km"),
                        Cell(frame[n].libration_elat, "libration_elat"),
                        Cell(frame[n].libration_elon, "libration_elon") >> ] ]

NoFile == [ exists |-> FALSE, header |-> <<>>, rows |-> <<>> ]
Unfit == [ fitted |-> FALSE, data_min |-> <<>>, data_max |-> <<>> ]

\* an exception that is swallowed, the run going on to write the table
FailSwallowed(e) == /\ pc' = "to_csv"
                    /\ error' = e

\* an uncaught exception ends the run
Fail(e) == /\ pc' = "failed"
           /\ error' = e

InitClusters ==
    /\ pc = "read_csv"
    /\ csv \in Inputs
    /\ df = <<>>
    /\ dist_range = 0 /\ elat_range = 0 /\ elon_range = 0
    /\ grid_points = <<>>
    /\ all_points = <<>>
    /\ scaler = Unfit
    /\ features_scaled = <<>>
    /\ cluster_centers_scaled = <<>>
    /\ cluster_centers = <<>>
    /\ centers_df = <<>>
    /\ out_file = NoFile
    /\ error = "none"

\* line 18: df = pd.read_csv("data/moon_history.csv")
ReadCsv ==
    /\ pc = "read_csv"
    /\ IF csv.exists
       THEN /\ df' = csv.rows
            /\ pc' = "ranges"
            /\ UNCHANGED error
       ELSE /\ Fail("FileNotFoundError")
            /\ UNCHANGED df
    /\ UNCHANGED << csv, dist_range, elat_range, elon_range, grid_points, all_points,
                    scaler, features_scaled, cluster_centers_scaled, cluster_centers,
                    centers_df, out_file >>
    /\ UNCHANGED << avars, pvars >>

\* lines 21-23: the range of each feature, a missing column raising KeyError.
\* (Lines 26-29 build dist_points, elat_points and elon_points, which nothing
\* reads; they are left out.)
ComputeRanges ==
    /\ pc = "ranges"
    /\ IF ColumnSet \subseteq csv.columns
       THEN /\ dist_range' = ColRange(df, "distance_km")
            /\ elat_range' = ColRange(df, "libration_elat")
            /\ elon_range' = ColRange(df, "libration_elon")
            /\ pc' = "grid"
            /\ UNCHANGED error
       ELSE /\ Fail("KeyError")
            /\ UNCHANGED << dist_range, elat_range, elon_range >>
    /\ UNCHANGED << csv, df, grid_points, all_points, scaler, features_scaled,
                    cluster_centers_scaled, cluster_centers, centers_df, out_file >>
    /\ UNCHANGED << avars, pvars >>

\* lines 32-39: the mesh
BuildGrid ==
    /\ pc = "grid"
    /\ grid_points' = Mesh(df, dist_range, elat_range, elon_range)
    /\ pc' = "combine"
    /\ UNCHANGED << csv, df, dist_range, elat_range, elon_range, all_points, scaler,
                    features_scaled, cluster_centers_scaled, cluster_centers,
                    centers_df, out_file, error >>
    /\ UNCHANGED << avars, pvars >>

\* lines 42-43: the observations and the mesh in one array
Combine ==
    /\ pc = "combine"
    /\ all_points' = VStack(FeatureValues(df), grid_points)
    /\ pc' = "scale"
    /\ UNCHANGED << csv, df, dist_range, elat_range, elon_range, grid_points, scaler,
                    features_scaled, cluster_centers_scaled, cluster_centers,
                    centers_df, out_file, error >>
    /\ UNCHANGED << avars, pvars >>

\* lines 46-47: scaler.fit_transform(all_points)
FitTransform ==
    /\ pc = "scale"
    /\ scaler' = ScalerFit(all_points)
    /\ features_scaled' =
         [ n \in 1..Len(all_points) |->
             [ f \in 1..3 |-> ScalerTransform(scaler', f, all_points[n][f]) ] ]
    /\ pc' = "kmeans"
    /\ UNCHANGED << csv, df, dist_range, elat_range, elon_range, grid_points,
                    all_points, cluster_centers_scaled, cluster_centers, centers_df,
                    out_file, error >>
    /\ UNCHANGED << avars, pvars >>

\* lines 50-57 and 60: kmeans.fit(features_scaled) and its cluster_centers_.
\* The fit raises ValueError on a NaN and on fewer samples than clusters.
KMeansFit ==
    /\ pc = "kmeans"
    /\ IF HasNaN(features_scaled) \/ Len(features_scaled) < NCLUSTERS
       THEN /\ Fail("ValueError")
            /\ UNCHANGED cluster_centers_scaled
       ELSE /\ cluster_centers_scaled' \in CenterArrays(features_scaled)
            /\ pc' = "inverse"
            /\ UNCHANGED error
    /\ UNCHANGED << csv, df, dist_range, elat_range, elon_range, grid_points,
                    all_points, scaler, features_scaled, cluster_centers, centers_df,
                    out_file >>
    /\ UNCHANGED << avars, pvars >>

\* lines 61-67: the centres in physical units, as a DataFrame
InverseTransform ==
    /\ pc = "inverse"
    /\ cluster_centers' =
         [ n \in 1..Len(cluster_centers_scaled) |->
             [ f \in 1..3 |-> ScalerInverse(scaler, f, cluster_centers_scaled[n][f]) ] ]
    /\ centers_df' = DataFrame(cluster_centers')
    /\ pc' = "round"
    /\ UNCHANGED << csv, df, dist_range, elat_range, elon_range, grid_points,
                    all_points, scaler, features_scaled, cluster_centers_scaled,
                    out_file, error >>
    /\ UNCHANGED << avars, pvars >>

\* lines 70-72: rounding
Round ==
    /\ pc = "round"
    /\ centers_df' = RoundFrame(centers_df)
    /\ pc' = "sort"
    /\ UNCHANGED << csv, df, dist_range, elat_range, elon_range, grid_points,
                    all_points, scaler, features_scaled, cluster_centers_scaled,
                    cluster_centers, out_file, error >>
    /\ UNCHANGED << avars, pvars >>

\* line 75: centers_df = centers_df.sort_values("distance_km")
Sort ==
    /\ pc = "sort"
    /\ \E p \in SortedOrders(centers_df) : centers_df' = Reorder(centers_df, p)
    /\ pc' = "index"
    /\ UNCHANGED << csv, df, dist_range, elat_range, elon_range, grid_points,
                    all_points, scaler, features_scaled, cluster_centers_scaled,
                    cluster_centers, out_file, error >>
    /\ UNCHANGED << avars, pvars >>

\* line 78: the index column; insert raises ValueError when the number of
\* values is not the number of rows
AddIndex ==
    /\ pc = "index"
    /\ IF Len(IndexColumn) = Len(centers_df)
       THEN /\ centers_df' = InsertIndex(centers_df, IndexColumn)
            /\ pc' = "to_csv"
            /\ UNCHANGED error
       ELSE /\ Fail("ValueError")
            /\ UNCHANGED centers_df
    /\ UNCHANGED << csv, df, dist_range, elat_range, elon_range, grid_points,
                    all_points, scaler, features_scaled, cluster_centers_scaled,
                    cluster_centers, out_file >>
    /\ UNCHANGED << avars, pvars >>

\* line 81: centers_df.to_csv("data/cluster_centers.csv", index=False)
ToCsv ==
    /\ pc = "to_csv"
    /\ out_file' = CsvText(centers_df)
    /\ pc' = "done"
    /\ UNCHANGED << csv, df, dist_range, elat_range, elon_range, grid_points,
                    all_points, scaler, features_scaled, cluster_centers_scaled,
                    cluster_centers, centers_df, error >>
    /\ UNCHANGED << avars, pvars >>

NextClusters ==
    \/ ReadCsv
    \/ ComputeRanges
    \/ BuildGrid
    \/ Combine
    \/ FitTransform
    \/ KMeansFit
    \/ InverseTransform
    \/ Round
    \/ Sort
    \/ AddIndex
    \/ ToCsv

(***************************************************************************)
(* scripts/png2ascii.py                                                    *)
(***************************************************************************)
\* most rows of renders/clusters.csv, and most records of ascii.json
MaxMoons == 3

\* what running chafa on one image does: it prints the art and exits 0, it
\* exits non-zero (an image it cannot open included), or the chafa program
\* itself is not found
ToolOutcomes == { "ok", "exit_nonzero", "tool_not_found" }

\* renders/clusters.csv with n rows; read_csv reads the index "01" as 1
ClusterRows(n) ==
    [ k \in 1..n |-> [ index |-> k, distance_km |-> 30 + Radix * k,
                       libration_elat |-> Radix * k - 20, libration_elon |-> 0 ] ]

Whitespace == { " ", "\n", "\t" }

\* str.strip()
RECURSIVE Strip(_)
Strip(s) ==
    IF s = <<>> THEN s
    ELSE IF s[1] \in Whitespace THEN Strip(Tail(s))
    ELSE IF s[Len(s)] \in Whitespace THEN Strip(SubSeq(s, 1, Len(s) - 1))
    ELSE s

\* what chafa prints for renders/{idx:02d}_moon.png
ChafaOutput(idx) == << " ", "#" >> \o Fmt02(idx) \o << "\n", " ", "#", "\n" >>

\* lines 42-48: the record of one row
MoonRecord(row, art) ==
    [ index |-> row.index, distance_km |-> row.distance_km,
      libration_elat |-> row.libration_elat, libration_elon |-> row.libration_elon,
      ascii |-> art ]

NoJson == [ exists |-> FALSE, moons |-> <<>> ]

InitAscii ==
    /\ apc = "loop"
    /\ \E n \in 0..MaxMoons :
          /\ clusters_df = ClusterRows(n)
          /\ tool \in [ 1..n -> ToolOutcomes ]
    /\ arow = 1
    /\ result = <<>>
    /\ ascii_json = NoJson
    /\ aerror = "none"
    /\ alog = <<>>

IdleAscii ==
    /\ apc = "idle"
    /\ clusters_df = <<>>
    /\ tool = <<>>
    /\ arow = 0
    /\ result = <<>>
    /\ ascii_json = NoJson
    /\ aerror = "none"
    /\ alog = <<>>

\* lines 20-51: one pass of the loop.  subprocess.check_output raises
\* CalledProcessError on a non-zero exit, which the loop catches, and
\* FileNotFoundError when the program is not found, which it does not.
ProcessRow ==
    /\ apc = "loop"
    /\ arow <= Len(clusters_df)
    /\ LET row == clusters_df[arow]
       IN  CASE tool[arow] = "ok" ->
                  /\ result' = Append(result,
                                      MoonRecord(row, Strip(ChafaOutput(row.index))))
                  /\ arow' = arow + 1
                  /\ UNCHANGED << apc, aerror, alog >>
             [] tool[arow] = "exit_nonzero" ->
                  /\ alog' = Append(alog, row.index)
                  /\ arow' = arow + 1
                  /\ UNCHANGED << apc, aerror, result >>
             [] OTHER ->
                  /\ apc' = "failed"
                  /\ aerror' = "FileNotFoundError"
                  /\ UNCHANGED << arow, result, alog >>
    /\ UNCHANGED << clusters_df, tool, ascii_json >>
    /\ UNCHANGED << cvars, pvars >>

\* lines 54-58: json.dump({"moons": result}, f)
WriteJson ==
    /\ apc = "loop"
    /\ arow > Len(clusters_df)
    /\ ascii_json' = [ exists |-> TRUE, moons |-> result ]
    /\ apc' = "done"
    /\ UNCHANGED << clusters_df, arow, tool, result, aerror, alog >>
    /\ UNCHANGED << cvars, pvars >>

NextAscii ==
    \/ ProcessRow
    \/ WriteJson

(***************************************************************************)
(* scripts/printer.py                                                      *)
(***************************************************************************)
MoonKeys == { "index", "distance_km", "libration_elat", "libration_elon", "ascii" }

\* an element of the list under "moons": an object with the keys it has, or
\* something that is not an object
WellFormed(k) == [ object |-> TRUE, keys |-> MoonKeys, index |-> k ]
Elements(k) ==
    { WellFormed(k),
      [ object |-> TRUE, keys |-> MoonKeys \ {"distance_km"}, index |-> k ],
      [ object |-> TRUE, keys |-> MoonKeys \ {"ascii"}, index |-> k ],
      [ object |-> FALSE, keys |-> {}, index |-> k ] }

MoonLists ==
    UNION { { s \in [ 1..n -> UNION { Elements(k) : k \in 1..n } ] :
                \A k \in 1..n : s[k].index = k } : n \in 0..MaxMoons }

\* src/render/ascii.json as the run finds it
Artifacts ==
    { [ kind |-> "missing", moons |-> <<>> ],
      [ kind |-> "invalid_json", moons |-> <<>> ],
      [ kind |-> "array", moons |-> <<>> ],
      [ kind |-> "object_without_moons", moons |-> <<>> ] }
    \cup { [ kind |-> "object", moons |-> l ] : l \in MoonLists }

\* the "ascii" of the record with index k: what png2ascii.py stored
AsciiText(k) == Strip(ChafaOutput(k))

\* str.split('\n')
RECURSIVE Split(_)
Split(s) ==
    IF \A n \in 1..Len(s) : s[n] # "\n" THEN << s >>
    ELSE LET cut == CHOOSE n \in 1..Len(s) :
                       s[n] = "\n" /\ \A m \in 1..(n - 1) : s[m] # "\n"
         IN  << SubSeq(s, 1, cut - 1) >> \o Split(SubSeq(s, cut + 1, Len(s)))

\* the characters of a line that are not whitespace
NonSpace(line) == SelectSeq(line, LAMBDA c : c \notin Whitespace)

\* lines 30-56: analyze_ascii_art
analyze_ascii_art(ascii_text) ==
    LET lines == Split(ascii_text)
    IN  [ total_lines |-> Len(lines),
          non_whitespace_lines |->
              Cardinality({ n \in 1..Len(lines) : NonSpace(lines[n]) # <<>> }),
          total_columns |-> SetMax({ Len(lines[n]) : n \in 1..Len(lines) }),
          non_whitespace_columns |->
              SetMax({ 0 } \cup { Len(NonSpace(lines[n])) : n \in 1..Len(lines) }) ]

\* lines 10-28: load_moon_data; every failure is reported and gives []
load_moon_data(file) ==
    CASE file.kind = "missing" ->
           [ moons |-> <<>>, report |-> << << "Error: Could not find" >> >> ]
      [] file.kind = "invalid_json" ->
           [ moons |-> <<>>, report |-> << << "Error: Invalid JSON" >> >> ]
      [] file.kind = "array" ->
           [ moons |-> <<>>, report |-> << << "Error loading moon data" >> >> ]
      [] file.kind = "object_without_moons" ->
           [ moons |-> <<>>, report |-> <<>> ]
      [] OTHER ->
           [ moons |-> file.moons, report |-> <<>> ]

\* lines 58-68: print_moon_info; what it prints, and the exception it ends
\* with ("none" when it returns)
print_moon_info(moon) ==
    IF ~moon.object
    THEN [ printed |-> <<>>, raised |-> "TypeError" ]
    ELSE IF ~({ "index", "distance_km", "libration_elat", "libration_elon" }
                \subseteq moon.keys)
    THEN [ printed |-> <<>>, raised |-> "KeyError" ]
    ELSE IF "ascii" \notin moon.keys
    THEN [ printed |-> << << "Moon #", moon.index >> >>, raised |-> "KeyError" ]
    ELSE [ printed |-> << << "Moon #", moon.index >>,
                          << "ASCII Stats:", analyze_ascii_art(AsciiText(moon.index)) >>,
                          << "ASCII Representation:", AsciiText(moon.index) >> >>,
           raised |-> "none" ]

InitPrinter ==
    /\ ppc = "load"
    /\ artifact \in Artifacts
    /\ moons = <<>>
    /\ i = 0
    /\ stdout = <<>>
    /\ perror = "none"

IdlePrinter ==
    /\ ppc = "idle"
    /\ artifact = [ kind |-> "missing", moons |-> <<>> ]
    /\ moons = <<>>
    /\ i = 0
    /\ stdout = <<>>
    /\ perror = "none"

\* lines 72-83: the banner, the load, and the early return on an empty list
Load ==
    /\ ppc = "load"
    /\ LET loaded == load_moon_data(artifact)
       IN  /\ moons' = loaded.moons
           /\ IF loaded.moons = <<>>
              THEN /\ stdout' = loaded.report \o << << "No moon data found." >> >>
                   /\ ppc' = "done"
              ELSE /\ stdout' = loaded.report \o << << "Found", Len(loaded.moons) >> >>
                   /\ ppc' = "loop"
    /\ UNCHANGED << artifact, i, perror >>
    /\ UNCHANGED << cvars, avars >>

\* lines 85-91: one pass of the loop of main; an exception of
\* print_moon_info is not caught
PrintMoon ==
    /\ ppc = "loop"
    /\ i < Len(moons)
    /\ LET out == print_moon_info(moons[i + 1])
       IN  /\ stdout' = stdout \o out.printed
           /\ IF out.raised = "none"
              THEN /\ i' = i + 1
                   /\ UNCHANGED << ppc, perror >>
              ELSE /\ ppc' = "crashed"
                   /\ perror' = out.raised
                   /\ UNCHANGED i
    /\ UNCHANGED << artifact, moons >>
    /\ UNCHANGED << cvars, avars >>

\* the loop of main is over and main returns
Return ==
    /\ ppc = "loop"
    /\ i = Len(moons)
    /\ ppc' = "done"
    /\ UNCHANGED << artifact, moons, i, stdout, perror >>
    /\ UNCHANGED << cvars, avars >>

NextPrinter ==
    \/ Load
    \/ PrintMoon
    \/ Return

(***************************************************************************)
(* Specifications.                                                         *)
(***************************************************************************)
IdleClusters ==
    /\ pc = "idle"
    /\ csv = [exists |-> FALSE, columns |-> {}, rows |-> <<>>]
    /\ df = <<>>
    /\ dist_range = 0 /\ elat_range = 0 /\ elon_range = 0
    /\ grid_points = <<>>
    /\ all_points = <<>>
    /\ scaler = Unfit
    /\ features_scaled = <<>>
    /\ cluster_centers_scaled = <<>>
    /\ cluster_centers = <<>>
    /\ centers_df = <<>>
    /\ out_file = NoFile
    /\ error = "none"

Init == InitClusters /\ IdleAscii /\ IdlePrinter
Next == NextClusters
Spec == Init /\ [][Next]_vars

InitA == IdleClusters /\ InitAscii /\ IdlePrinter
SpecAscii == InitA /\ [][NextAscii]_vars

InitP == IdleClusters /\ IdleAscii /\ InitPrinter
SpecPrinter == InitP /\ [][NextPrinter]_vars

(***************************************************************************)
(* Reading the output table back.                                          *)
(***************************************************************************)
DigitValue(c) == CHOOSE d \in 0..9 : Digit[d + 1] = c

\* int(s) for a string of digits
RECURSIVE ParseInt(_)
ParseInt(s) ==
    IF s = <<>> THEN 0
    ELSE ParseInt(SubSeq(s, 1, Len(s) - 1)) * Radix + DigitValue(s[Len(s)])

DotAt(s) == CHOOSE n \in 1..Len(s) : s[n] = "."

\* the number of digits after the decimal point
FracDigits(s) == Len(s) - DotAt(s)

\* the value of the text of a float, in units of 10^-digits
ParseFloat(s, digits) ==
    LET neg  == s[1] = "-"
        body == IF neg THEN Tail(s) ELSE s
        dot  == DotAt(body)
        frac == SubSeq(body, dot + 1, Len(body))
        mag  == ParseInt(SubSeq(body, 1, dot - 1)) * Pow(Radix, digits)
                + ParseInt(frac) * Pow(Radix, digits - Len(frac))
    IN  IF neg THEN -mag ELSE mag

\* the value of cell c (2..4) of line n of the output table, in model units
OutValue(n, c) == ParseFloat(out_file.rows[n][c], Decimals(Columns[c - 1]) + 1)

OutRows == 1..Len(out_file.rows)

\* the input table has rows and all of the required columns
ValidInput == csv.exists /\ ColumnSet \subseteq csv.columns /\ csv.rows # <<>>

(***************************************************************************)
(* C1  The index column of the output table, read top to bottom, is "01",  *)
(* "02", ..., one two-digit string per cluster, and the distances of the   *)
(* rows are non-decreasing from top to bottom: the index is the position   *)
(* after the sort.                                                         *)
(***************************************************************************)
C1_IndexFollowsSortedDistance ==
    out_file.exists =>
        /\ Len(out_file.rows) = NCLUSTERS
        /\ \A n \in OutRows :
              /\ Len(out_file.rows[n][1]) = 2
              /\ ParseInt(out_file.rows[n][1]) = n
        /\ \A n \in 1..(Len(out_file.rows) - 1) : OutValue(n, 2) <= OutValue(n + 1, 2)

\* an output table whose first row was not the first cluster before the sort
\* and whose distances differ
C1_Witness ==
    /\ out_file.exists
    /\ centers_df[1].label # 0
    /\ OutValue(1, 2) < OutValue(Len(out_file.rows), 2)

(***************************************************************************)
(* C2  The output table has exactly NCLUSTERS rows whatever the number of  *)
(* input rows, and from the fit on no step changes the number of rows.     *)
(***************************************************************************)
C2_RowCountIsK ==
    /\ pc \in { "inverse", "round", "sort", "index", "to_csv", "done" }
          => Len(cluster_centers_scaled) = NCLUSTERS
    /\ pc \in { "round", "sort", "index", "to_csv", "done" }
          => Len(cluster_centers) = NCLUSTERS /\ Len(centers_df) = NCLUSTERS
    /\ pc = "done" <=> out_file.exists
    /\ out_file.exists => Len(out_file.rows) = NCLUSTERS

\* a table written for an input with another number of rows than NCLUSTERS,
\* two centres having come out equal
C2_Witness ==
    /\ out_file.exists
    /\ Len(df) # NCLUSTERS
    /\ \E a, b \in OutRows : a # b /\ cluster_centers[a] = cluster_centers[b]

(***************************************************************************)
(* C3  As stated: every value of the output table lies within the          *)
(* [min, max] of its column in the input table.  (Stated for the inputs    *)
(* on which every feature takes two values at least; the others are the    *)
(* matter of C6.)                                                          *)
(***************************************************************************)
ZeroRange(col) == ColMax(csv.rows, col) = ColMin(csv.rows, col)
NoZeroRange == \A c \in 1..3 : ~ZeroRange(Columns[c])

C3_Original_OutputWithinInputRange ==
    (out_file.exists /\ NoZeroRange) =>
        \A n \in OutRows : \A c \in 2..4 :
            /\ ColMin(csv.rows, Columns[c - 1]) <= OutValue(n, c)
            /\ OutValue(n, c) <= ColMax(csv.rows, Columns[c - 1])

\* every value of the input column has the output precision
HasOutputPrecision(col) == \A n \in 1..Len(csv.rows) : csv.rows[n][col] % Radix = 0

(***************************************************************************)
(* C3 amended  For a feature whose input values all have the output        *)
(* precision, every value of the output table lies within the [min, max]   *)
(* of the input column.                                                    *)
(***************************************************************************)
C3_OutputWithinRangeAtPrecision ==
    out_file.exists =>
        \A c \in 2..4 : HasOutputPrecision(Columns[c - 1]) =>
            \A n \in OutRows :
                /\ ColMin(csv.rows, Columns[c - 1]) <= OutValue(n, c)
                /\ OutValue(n, c) <= ColMax(csv.rows, Columns[c - 1])

\* a table with a centre at the least and a centre at the greatest value of
\* libration_elat, whose mesh went past the greatest observed value
C3_Witness ==
    /\ out_file.exists
    /\ HasOutputPrecision("libration_elat")
    /\ ColMin(csv.rows, "libration_elat") < ColMax(csv.rows, "libration_elat")
    /\ scaler.data_max[2] > ColMax(csv.rows, "libration_elat")
    /\ OutValue(1, 3) = ColMin(csv.rows, "libration_elat")
    /\ OutValue(2, 3) = ColMax(csv.rows, "libration_elat")

(***************************************************************************)
(* C4  As stated: every distance_km of the output table has exactly 1      *)
(* fractional digit and every libration value exactly 3.  (Stated for the  *)
(* inputs on which every feature takes two values at least.)               *)
(***************************************************************************)
C4_Original_ExactFractionDigits ==
    (out_file.exists /\ NoZeroRange) =>
        \A n \in OutRows :
            /\ FracDigits(out_file.rows[n][2]) = DistDecimals
            /\ FracDigits(out_file.rows[n][3]) = LibrationDecimals
            /\ FracDigits(out_file.rows[n][4]) = LibrationDecimals

\* the text has no trailing zero it could do without
NoSpareZero(s) == FracDigits(s) > 1 => s[Len(s)] # "0"

(***************************************************************************)
(* C4 amended  Every distance_km of the output table has exactly 1         *)
(* fractional digit; every libration value has at least 1 and at most 3,   *)
(* its trailing zeros not being written.                                   *)
(***************************************************************************)
C4_AtMostFractionDigits ==
    out_file.exists =>
        \A n \in OutRows :
            /\ FracDigits(out_file.rows[n][2]) = DistDecimals
            /\ \A c \in 3..4 :
                  /\ FracDigits(out_file.rows[n][c]) \in 1..LibrationDecimals
                  /\ NoSpareZero(out_file.rows[n][c])

\* a table with a libration value of three fractional digits and one of a
\* single fractional digit, from an input finer than the output precision
C4_Witness ==
    /\ out_file.exists
    /\ ~HasOutputPrecision("distance_km")
    /\ \E n \in OutRows : FracDigits(out_file.rows[n][3]) = LibrationDecimals
    /\ \E n \in OutRows : FracDigits(out_file.rows[n][4]) = 1

(***************************************************************************)
(* C6  As stated: an input table with a single distinct value for a        *)
(* feature makes the run fail, and no output table is written.             *)
(***************************************************************************)
C6_Original_ZeroRangeFails ==
    (ValidInput /\ \E c \in 1..3 : ZeroRange(Columns[c]))
        => (pc # "done" /\ ~out_file.exists)

(***************************************************************************)
(* C9  As stated: the augmented set is the observations plus               *)
(* GridSteps^3 mesh points, every coordinate lies within the [min, max]    *)
(* of its input column, the fractions 0 and 1 give exactly the observed    *)
(* min and max, the normalizer is fit with the min and max of the          *)
(* observations, and the centres are inverted with that same fit.          *)
(***************************************************************************)
Fitted == pc \in { "kmeans", "inverse", "round", "sort", "index", "to_csv", "done" }

C9_Original_AugmentedSetWithinRange ==
    (Fitted /\ ValidInput) =>
        /\ Len(all_points) = Len(df) + GridSteps * GridSteps * GridSteps
        /\ \A n \in 1..Len(all_points) : \A f \in 1..3 :
              /\ ColMin(csv.rows, Columns[f]) <= all_points[n][f]
              /\ all_points[n][f] <= ColMax(csv.rows, Columns[f])
        /\ \A f \in 1..3 :
              /\ grid_points[1][f] = ColMin(csv.rows, Columns[f])
              /\ grid_points[Len(grid_points)][f] = ColMax(csv.rows, Columns[f])
              /\ scaler.data_min[f] = ColMin(csv.rows, Columns[f])
              /\ scaler.data_max[f] = ColMax(csv.rows, Columns[f])
        /\ scaler = ScalerFit(all_points)

(***************************************************************************)
(* C10  The run goes through its steps in order and writes the output      *)
(* table once, as its last step; a step that fails ends the run with its   *)
(* error, the output table not written; the input table is never           *)
(* modified.                                                               *)
(***************************************************************************)
StepOrder == << "read_csv", "ranges", "grid", "combine", "scale", "kmeans",
                "inverse", "round", "sort", "index", "to_csv", "done" >>

C10_Step ==
    /\ csv' = csv
    /\ pc' # pc =>
          \/ \E n \in 1..(Len(StepOrder) - 1) : pc = StepOrder[n] /\ pc' = StepOrder[n + 1]
          \/ pc' = "failed" /\ error' # "none" /\ pc \notin { "to_csv", "done" }
    /\ out_file' # out_file => pc = "to_csv" /\ pc' = "done" /\ ~out_file.exists
    /\ pc' = "failed" => ~out_file'.exists
    /\ pc' = "done" => out_file'.exists /\ error' = "none"
    /\ ~ValidInput => pc' # "done"

C10_SequentialSingleWrite == [][C10_Step]_vars

\* a run that failed in the clustering, on a table without rows, and wrote
\* nothing
C10_Witness ==
    /\ pc = "failed"
    /\ error = "ValueError"
    /\ csv.exists /\ csv.rows = <<>>
    /\ features_scaled # <<>>
    /\ ~out_file.exists

(***************************************************************************)
(* C8  As stated: whatever the failures of the tool, the loop goes through *)
(* all rows, the artifact is written, and its list is the rows whose       *)
(* invocation succeeded, in input order.                                   *)
(***************************************************************************)
RECURSIVE Succeeded(_)
Succeeded(n) ==
    IF n = 0 THEN <<>>
    ELSE IF tool[n] = "ok" THEN Append(Succeeded(n - 1), clusters_df[n].index)
    ELSE Succeeded(n - 1)

C8_Original_FailuresAreSkipped ==
    apc \in { "done", "failed" } =>
        /\ apc = "done"
        /\ ascii_json.exists
        /\ [ n \in 1..Len(ascii_json.moons) |-> ascii_json.moons[n].index ]
             = Succeeded(Len(clusters_df))

(***************************************************************************)
(* C7  As stated: whatever the artifact holds, the run ends normally, and  *)
(* every well-formed record of the list is printed, those after a          *)
(* malformed one included.                                                 *)
(***************************************************************************)
Printed(k) == \E n \in 1..Len(stdout) : stdout[n] = << "ASCII Representation:", AsciiText(k) >>

C7_Original_MalformedRecordsTolerated ==
    ppc \in { "done", "crashed" } =>
        /\ ppc = "done"
        /\ perror = "none"
        /\ \A n \in 1..Len(artifact.moons) :
              artifact.moons[n] = WellFormed(n) => Printed(n)
====
